---- MODULE Spec2Model ----
(***************************************************************************)
(* A model of oss_fuzz_analysis/analyzer.py: the metadata fetcher, the     *)
(* simulated data provider, the analyzer, the trend renderer and main, the *)
(* orchestrator that writes the chart and the JSON report.                 *)
(*                                                                         *)
(* A pandas DataFrame is [columns, rows]: the ordered column labels and    *)
(* the ordered rows, each row a function from column label to cell.        *)
(* A float is a record [kind, num, den]: an exact fraction in lowest       *)
(* terms, or NaN, or a signed infinity (rounding is not modelled).         *)
(* A date cell is [type, text]: a str or a datetime object.                *)
(***************************************************************************)
EXTENDS Integers, Sequences, FiniteSets, TLC

VARIABLES
    project_names,   \* the list handed to main / to fetch_project_data
    pc,              \* the step of main that runs next ("idle" outside main)
    failed,          \* an exception has left main
    steps,           \* the steps of main that have run, in order
    metadata,        \* main's local: result of fetch_project_metadata
    project_data,    \* the mapping of tables (main's local / the caller's object)
    analysis,        \* result of the latest analyze_project_data call
    results,         \* main's local: the report structure
    chart_file,      \* outputs/coverage_trends.png
    report_file,     \* outputs/oss_fuzz_analysis.json
    prior_chart,     \* what outputs/coverage_trends.png held before the run
    prior_report,    \* what outputs/oss_fuzz_analysis.json held before the run
    responses,       \* what requests.get returned, one per lookup of the run
    input_data,      \* direct calls: the tables as they were handed over
    prev_analysis,   \* direct calls: result of the call before the latest
    calls            \* direct calls: number of analyze_project_data calls made

vars == <<project_names, pc, failed, steps, metadata, project_data, analysis,
          results, chart_file, report_file, prior_chart, prior_report,
          responses, input_data, prev_analysis, calls>>

(***************************************************************************)
(* Bounds of the model.                                                    *)
(***************************************************************************)
MaxNames == 2
MaxRows == 3
MaxCalls == 3

(***************************************************************************)
(* Values.                                                                 *)
(***************************************************************************)
EmptyMap == <<>>

Range(s) == {s[i] : i \in 1..Len(s)}

SeqsUpTo(S, n) == UNION {[1..k -> S] : k \in 1..n}

Str(s) == [type |-> "str", text |-> s]

Datetime(s) == [type |-> "datetime", text |-> s]

Abs(n) == IF n < 0 THEN -n ELSE n

RECURSIVE GCD(_, _)
GCD(a, b) == IF b = 0 THEN a ELSE GCD(b, a % b)

NaN == [kind |-> "nan", num |-> 0, den |-> 1]

Inf(sign) == [kind |-> "inf", num |-> sign, den |-> 1]

\* the float n / d, d > 0
Frac(n, d) ==
    LET g == GCD(Abs(n), d)
    IN  [kind |-> "num", num |-> n \div g, den |-> d \div g]

\* float division cur / prev of two integer cells, as numpy does it
FloatDiv(cur, prev) ==
    IF prev = 0
    THEN IF cur = 0 THEN NaN ELSE Inf(IF cur > 0 THEN 1 ELSE -1)
    ELSE IF prev > 0 THEN Frac(cur, prev) ELSE Frac(-cur, -prev)

FloatMinusOne(x) ==
    IF x.kind = "num" THEN Frac(x.num - x.den, x.den) ELSE x

FloatTimes100(x) ==
    IF x.kind = "num" THEN Frac(x.num * 100, x.den) ELSE x

(***************************************************************************)
(* pandas operations used by the analyzer.                                 *)
(***************************************************************************)
DataFrame(cols, records) == [columns |-> cols, rows |-> records]

Column(df, col) == [i \in 1..Len(df.rows) |-> df.rows[i][col]]

\* df[col] = values: replaces the column in place, or appends it as the last
SetColumn(df, col, values) ==
    [columns |-> IF col \in Range(df.columns) THEN df.columns
                 ELSE Append(df.columns, col),
     rows |-> [i \in 1..Len(df.rows) |->
                 [c \in (DOMAIN df.rows[i]) \cup {col} |->
                     IF c = col THEN values[i] ELSE df.rows[i][c]]]]

PctChangeFromFirst(s) ==
    [i \in 1..Len(s) |->
        IF i = 1 THEN NaN ELSE FloatMinusOne(FloatDiv(s[i], s[1]))]

\* Series.pct_change(): x[i] / x[i-1] - 1, NaN for the first element
PctChange(s) ==
    [i \in 1..Len(s) |->
        IF i = 1 THEN NaN ELSE FloatMinusOne(FloatDiv(s[i], s[i - 1]))]

RECURSIVE SumSeq(_)
SumSeq(s) == IF s = <<>> THEN 0 ELSE s[1] + SumSeq(Tail(s))

\* Series.mean(): NaN for an empty series
Mean(s) ==
    IF Len(s) = 0 THEN NaN ELSE Frac(SumSeq(s), Len(s))

RECURSIVE UniqueValues(_, _)
UniqueValues(s, seen) ==
    IF s = <<>> THEN seen
    ELSE UniqueValues(Tail(s),
                      IF s[1] \in Range(seen) THEN seen ELSE Append(seen, s[1]))

NUniqueCount(s) == Len(s)

\* Series.nunique(): the number of values met for the first time
NUnique(s) == Len(UniqueValues(s, <<>>))

\* astype(str) on one date cell
AsTypeStr(v) == [type |-> "str", text |-> v.text]

\* DataFrame.to_dict(orient="records")
ToDictRecords(df) == df.rows

\* mapping[key] = value on a dict
MapSet(m, k, v) == [x \in (DOMAIN m) \cup {k} |-> IF x = k THEN v ELSE m[x]]

(***************************************************************************)
(* fetch_project_metadata                                                  *)
(***************************************************************************)
NotFound == [error |-> "Project not found"]

JsonBody == "{\"type\": \"dir\"}"

HtmlBody == "<html>"

\* what requests.get may produce: a transport failure, or a response
TransportError == [transport |-> "error", status_code |-> 0, text |-> ""]

Responses ==
    {TransportError} \cup
    [transport : {"ok"}, status_code : {200, 404, 500}, text : {JsonBody, HtmlBody}]

\* response.json(): the decoded body, or a raised JSONDecodeError
ResponseJson(response) ==
    IF response.text = JsonBody
    THEN [raised |-> FALSE, value |-> [type |-> "dir"]]
    ELSE [raised |-> TRUE, value |-> EmptyMap]

RECURSIVE FetchMetadataLoopSkip(_, _, _, _)
FetchMetadataLoopSkip(names, replies, i, acc) ==
    IF i > Len(names) THEN [raised |-> FALSE, value |-> acc]
    ELSE IF replies[i].transport = "error"
    THEN [raised |-> TRUE, value |-> EmptyMap]
    ELSE IF replies[i].status_code = 200
    THEN IF ResponseJson(replies[i]).raised
         THEN [raised |-> TRUE, value |-> EmptyMap]
         ELSE FetchMetadataLoopSkip(names, replies, i + 1,
                  MapSet(acc, names[i], ResponseJson(replies[i]).value))
    ELSE FetchMetadataLoopSkip(names, replies, i + 1, acc)

\* the loop of fetch_project_metadata from its i-th iteration, acc the dict
RECURSIVE FetchMetadataLoop(_, _, _, _)
FetchMetadataLoop(names, replies, i, acc) ==
    IF i > Len(names) THEN [raised |-> FALSE, value |-> acc]
    ELSE IF replies[i].transport = "error"
    THEN [raised |-> TRUE, value |-> EmptyMap]
    ELSE IF replies[i].status_code = 200
    THEN IF ResponseJson(replies[i]).raised
         THEN [raised |-> TRUE, value |-> EmptyMap]
         ELSE FetchMetadataLoop(names, replies, i + 1,
                  MapSet(acc, names[i], ResponseJson(replies[i]).value))
    ELSE FetchMetadataLoop(names, replies, i + 1,
             MapSet(acc, names[i], NotFound))

fetch_project_metadata(names, replies) ==
    FetchMetadataLoop(names, replies, 1, EmptyMap)

(***************************************************************************)
(* fetch_project_data                                                      *)
(***************************************************************************)
KnownProjects == {"zlib", "libpng", "openssl"}

coverage_base ==
    [p \in KnownProjects |->
        CASE p = "zlib" -> 70 [] p = "libpng" -> 75 [] p = "openssl" -> 65]

crash_data ==
    << [date |-> Str("15-01-2025"), crash_hash |-> "mno345", type |-> "null-pointer"],
       [date |-> Str("28-01-2025"), crash_hash |-> "pqr678", type |-> "division-by-zero"],
       [date |-> Str("31-01-2025"), crash_hash |-> "jkl012", type |-> "integer-overflow"],
       [date |-> Str("10-02-2025"), crash_hash |-> "stu901", type |-> "buffer-overflow"],
       [date |-> Str("20-02-2025"), crash_hash |-> "vwx234", type |-> "race-condition"],
       [date |-> Str("25-02-2025"), crash_hash |-> "ghi789", type |-> "stack-overflow"],
       [date |-> Str("06-03-2025"), crash_hash |-> "def456", type |-> "use-after-free"],
       [date |-> Str("06-03-2025"), crash_hash |-> "abc123", type |-> "heap-overflow"],
       [date |-> Str("15-03-2025"), crash_hash |-> "abc123", type |-> "heap-overflow"] >>

coverage_data(base) ==
    << [date |-> Str("15-01-2025"), coverage |-> base],
       [date |-> Str("28-01-2025"), coverage |-> base + 3],
       [date |-> Str("31-01-2025"), coverage |-> base + 5],
       [date |-> Str("10-02-2025"), coverage |-> base + 7],
       [date |-> Str("20-02-2025"), coverage |-> base + 10],
       [date |-> Str("25-02-2025"), coverage |-> base + 12],
       [date |-> Str("06-03-2025"), coverage |-> base + 15],
       [date |-> Str("06-03-2025"), coverage |-> base + 17],
       [date |-> Str("15-03-2025"), coverage |-> base + 20] >>

CrashColumns == <<"date", "crash_hash", "type">>

CoverageColumns == <<"date", "coverage">>

ProjectTables(base) ==
    [crashes |-> DataFrame(CrashColumns, crash_data),
     coverage |-> DataFrame(CoverageColumns, coverage_data(base))]

LookupBaselineDefault(project) ==
    [raised |-> FALSE,
     base |-> IF project \in DOMAIN coverage_base THEN coverage_base[project] ELSE 50]

\* coverage_base[project]: the baseline, or a raised KeyError
LookupBaseline(project) ==
    IF project \in DOMAIN coverage_base
    THEN [raised |-> FALSE, base |-> coverage_base[project]]
    ELSE [raised |-> TRUE, base |-> 0]

RECURSIVE FetchDataLoopFirstBase(_, _, _)
FetchDataLoopFirstBase(names, i, acc) ==
    IF i > Len(names) THEN [raised |-> FALSE, value |-> acc]
    ELSE IF LookupBaseline(names[i]).raised \/ LookupBaseline(names[1]).raised
    THEN [raised |-> TRUE, value |-> EmptyMap]
    ELSE FetchDataLoopFirstBase(names, i + 1,
             MapSet(acc, names[i], ProjectTables(LookupBaseline(names[1]).base)))

\* the loop of fetch_project_data from its i-th iteration, acc the dict
RECURSIVE FetchDataLoop(_, _, _)
FetchDataLoop(names, i, acc) ==
    IF i > Len(names) THEN [raised |-> FALSE, value |-> acc]
    ELSE IF LookupBaseline(names[i]).raised
    THEN [raised |-> TRUE, value |-> EmptyMap]
    ELSE FetchDataLoop(names, i + 1,
             MapSet(acc, names[i], ProjectTables(LookupBaseline(names[i]).base)))

fetch_project_data(names) == FetchDataLoop(names, 1, EmptyMap)

(***************************************************************************)
(* analyze_project_data                                                    *)
(***************************************************************************)
DropNa(df, col) ==
    [columns |-> df.columns,
     rows |-> SelectSeq(df.rows, LAMBDA r : r[col].kind # "nan")]

GrowthRate(df) ==
    [i \in 1..Len(df.rows) |->
        FloatTimes100(PctChange(Column(df, "coverage"))[i])]

WithGrowthRateDropNa(df) ==
    DropNa(SetColumn(df, "growth_rate", GrowthRate(df)), "growth_rate")

\* coverage_df["growth_rate"] = coverage_df["coverage"].pct_change() * 100
WithGrowthRate(df) == SetColumn(df, "growth_rate", GrowthRate(df))

\* coverage_df["date"] = coverage_df["date"].astype(str)
WithStrDates(df) ==
    SetColumn(df, "date", [i \in 1..Len(df.rows) |-> AsTypeStr(df.rows[i].date)])

\* the coverage frame of one project after the loop body: the same object,
\* changed in place
AnalyzedCoverage(data) == WithStrDates(WithGrowthRate(data.coverage))

AnalyzeProject(data) ==
    [unique_crashes |-> NUnique(Column(data.crashes, "crash_hash")),
     avg_coverage |-> Mean(Column(data.coverage, "coverage")),
     coverage_trend |-> ToDictRecords(AnalyzedCoverage(data))]

\* the returned analysis
analyze_project_data(data) == [p \in DOMAIN data |-> AnalyzeProject(data[p])]

\* the argument after the call: coverage_df is data["coverage"] itself
AfterAnalyze(data) ==
    [p \in DOMAIN data |->
        [crashes |-> data[p].crashes, coverage |-> AnalyzedCoverage(data[p])]]

(***************************************************************************)
(* plot_coverage_trends                                                    *)
(***************************************************************************)
\* pd.to_datetime(text, format="%d-%m-%Y") as an ordinal yyyymmdd
ToDatetime(text) ==
    CASE text = "15-01-2025" -> 20250115
      [] text = "28-01-2025" -> 20250128
      [] text = "31-01-2025" -> 20250131
      [] text = "10-02-2025" -> 20250210
      [] text = "20-02-2025" -> 20250220
      [] text = "25-02-2025" -> 20250225
      [] text = "06-03-2025" -> 20250306
      [] text = "15-03-2025" -> 20250315

\* the point plotted for one row of the copy
PlotPoint(row) == [date |-> ToDatetime(row.date.text), coverage |-> row.coverage]

RECURSIVE InsertByDate(_, _)
InsertByDate(sorted, point) ==
    IF sorted = <<>> THEN <<point>>
    ELSE IF point.date < sorted[1].date THEN <<point>> \o sorted
    ELSE <<sorted[1]>> \o InsertByDate(Tail(sorted), point)

\* df.sort_values("date") on the parsed copy (a stable insertion sort, which
\* is what numpy's default sort does on a frame this small)
RECURSIVE SortValuesByDate(_, _)
SortValuesByDate(rows, sorted) ==
    IF rows = <<>> THEN sorted
    ELSE SortValuesByDate(Tail(rows), InsertByDate(sorted, PlotPoint(rows[1])))

\* the figure: one line per project of the list, keyed by its legend label
plot_coverage_trends(data, names) ==
    [p \in Range(names) |-> SortValuesByDate(data[p].coverage.rows, <<>>)]

(***************************************************************************)
(* main                                                                    *)
(***************************************************************************)
Order == <<"fetch_metadata", "fetch_data", "analyze", "plot", "build_report",
           "write_report">>

IndexOf(s) == CHOOSE i \in 1..Len(Order) : Order[i] = s

NextStepBuildFirst(s) ==
    CASE s = "analyze" -> "build_report"
      [] s = "build_report" -> "plot"
      [] s = "plot" -> "write_report"
      [] OTHER -> IF IndexOf(s) = Len(Order) THEN "done" ELSE Order[IndexOf(s) + 1]

\* the statement of main that follows statement s
NextStep(s) == IF IndexOf(s) = Len(Order) THEN "done" ELSE Order[IndexOf(s) + 1]

Absent == [exists |-> FALSE, content |-> <<>>]

\* raw_data as main builds it, from copies of the frames as they are then
RawData(data) ==
    [p \in DOMAIN data |->
        [crashes |-> ToDictRecords(data[p].crashes),
         coverage |-> ToDictRecords(data[p].coverage)]]

\* json.dump writes the document piece by piece, in key order
JsonChunks(doc) ==
    << [key |-> "metadata", value |-> doc.metadata],
       [key |-> "analysis", value |-> doc.analysis],
       [key |-> "raw_data", value |-> doc.raw_data] >>

\* the outputs a run of main on the empty list leaves behind
EmptyRunReport ==
    [exists |-> TRUE,
     content |-> JsonChunks([metadata |-> EmptyMap, analysis |-> EmptyMap,
                             raw_data |-> EmptyMap])]

EmptyRunChart == [exists |-> TRUE, content |-> EmptyMap]

ProjectIds == KnownProjects \cup {"invalid_project"}

Ran(step) == steps' = Append(steps, step)

Raise == failed' = TRUE /\ pc' = pc

NoCalls == UNCHANGED <<input_data, prev_analysis, calls>>

FetchMetadata ==
    /\ pc = "fetch_metadata" /\ ~failed
    /\ \E rs \in [1..Len(project_names) -> Responses] :
          /\ responses' = rs
          /\ IF fetch_project_metadata(project_names, rs).raised
             THEN Raise /\ metadata' = metadata
             ELSE /\ metadata' = fetch_project_metadata(project_names, rs).value
                  /\ pc' = NextStep(pc) /\ failed' = failed
    /\ Ran("fetch_metadata")
    /\ UNCHANGED <<project_names, project_data, analysis, results, chart_file,
                   report_file, prior_chart, prior_report>>
    /\ NoCalls

FetchData ==
    /\ pc = "fetch_data" /\ ~failed
    /\ IF fetch_project_data(project_names).raised
       THEN Raise /\ project_data' = project_data
       ELSE /\ project_data' = fetch_project_data(project_names).value
            /\ pc' = NextStep(pc) /\ failed' = failed
    /\ Ran("fetch_data")
    /\ UNCHANGED <<project_names, metadata, analysis, results, chart_file,
                   report_file, prior_chart, prior_report, responses>>
    /\ NoCalls

Analyze ==
    /\ pc = "analyze" /\ ~failed
    /\ analysis' = analyze_project_data(project_data)
    /\ project_data' = AfterAnalyze(project_data)
    /\ pc' = NextStep(pc)
    /\ Ran("analyze")
    /\ UNCHANGED <<project_names, failed, metadata, results, chart_file,
                   report_file, prior_chart, prior_report, responses>>
    /\ NoCalls

\* savefig either saves the figure or raises (no directory, no space)
Plot ==
    /\ pc = "plot" /\ ~failed
    /\ \E saved \in BOOLEAN :
          IF saved
          THEN /\ chart_file' = [exists |-> TRUE,
                                 content |-> plot_coverage_trends(project_data,
                                                                  project_names)]
               /\ pc' = NextStep(pc) /\ failed' = failed
          ELSE Raise /\ chart_file' = chart_file
    /\ Ran("plot")
    /\ UNCHANGED <<project_names, metadata, project_data, analysis, results,
                   report_file, prior_chart, prior_report, responses>>
    /\ NoCalls

BuildReport ==
    /\ pc = "build_report" /\ ~failed
    /\ results' = [metadata |-> metadata, analysis |-> analysis,
                   raw_data |-> RawData(project_data)]
    /\ pc' = NextStep(pc)
    /\ Ran("build_report")
    /\ UNCHANGED <<project_names, failed, metadata, project_data, analysis,
                   chart_file, report_file, prior_chart, prior_report, responses>>
    /\ NoCalls

\* open(path, "w") raises and leaves the file alone, or truncates it; then
\* json.dump writes n pieces before it raises, or all of them
WriteReport ==
    /\ pc = "write_report" /\ ~failed
    /\ \E opened \in BOOLEAN, n \in 0..Len(JsonChunks(results)) :
          IF ~opened
          THEN n = 0 /\ Raise /\ report_file' = report_file
          ELSE /\ report_file' = [exists |-> TRUE,
                                  content |-> SubSeq(JsonChunks(results), 1, n)]
               /\ IF n = Len(JsonChunks(results))
                  THEN pc' = NextStep(pc) /\ failed' = failed
                  ELSE Raise
    /\ Ran("write_report")
    /\ UNCHANGED <<project_names, metadata, project_data, analysis, results,
                   chart_file, prior_chart, prior_report, responses>>
    /\ NoCalls

Init ==
    /\ project_names \in SeqsUpTo(ProjectIds, MaxNames)
    /\ pc = "fetch_metadata"
    /\ failed = FALSE
    /\ steps = <<>>
    /\ metadata = EmptyMap
    /\ project_data = EmptyMap
    /\ analysis = EmptyMap
    /\ results = EmptyMap
    /\ \E ran_before \in BOOLEAN :
          /\ prior_chart = IF ran_before THEN EmptyRunChart ELSE Absent
          /\ prior_report = IF ran_before THEN EmptyRunReport ELSE Absent
    /\ chart_file = prior_chart
    /\ report_file = prior_report
    /\ responses = <<>>
    /\ input_data = EmptyMap
    /\ prev_analysis = EmptyMap
    /\ calls = 0

Next ==
    \/ FetchMetadata
    \/ FetchData
    \/ Analyze
    \/ Plot
    \/ BuildReport
    \/ WriteReport

Spec == Init /\ [][Next]_vars

(***************************************************************************)
(* Direct calls of the library functions, as the tests make them: on the   *)
(* mapping fetch_project_data returned, or on frames the caller built.     *)
(***************************************************************************)
SampleDates == {Str("15-01-2025"), Datetime("2025-03-06")}

SampleCoverage == {0, 50, 75}

SampleHashes == {"test123", "abc123"}

\* mappings shaped like the sample_project_data fixture
SampleProjectData ==
    { [test_project |->
          [crashes |-> DataFrame(CrashColumns, cr),
           coverage |-> DataFrame(CoverageColumns, cv)]] :
        cr \in SeqsUpTo([date : {Str("15-01-2025")}, crash_hash : SampleHashes,
                         type : {"null-pointer"}], MaxRows),
        cv \in SeqsUpTo([date : SampleDates, coverage : SampleCoverage], MaxRows) }

NoMain ==
    UNCHANGED <<pc, steps, metadata, results, chart_file, report_file,
                prior_chart, prior_report, responses>>

CallFetchProjectData ==
    /\ pc = "idle" /\ ~failed
    /\ project_data = EmptyMap /\ calls = 0
    /\ IF fetch_project_data(project_names).raised
       THEN failed' = TRUE /\ UNCHANGED <<project_data, input_data>>
       ELSE /\ project_data' = fetch_project_data(project_names).value
            /\ input_data' = project_data'
            /\ failed' = failed
    /\ UNCHANGED <<project_names, analysis, prev_analysis, calls>>
    /\ NoMain

CallAnalyzeProjectData ==
    /\ pc = "idle" /\ ~failed
    /\ project_data # EmptyMap /\ calls < MaxCalls
    /\ prev_analysis' = analysis
    /\ analysis' = analyze_project_data(project_data)
    /\ project_data' = AfterAnalyze(project_data)
    /\ calls' = calls + 1
    /\ UNCHANGED <<project_names, failed, input_data>>
    /\ NoMain

InitCalls ==
    /\ \/ /\ project_names \in SeqsUpTo(ProjectIds, MaxNames)
          /\ project_data = EmptyMap
       \/ /\ project_names = <<"test_project">>
          /\ project_data \in SampleProjectData
    /\ input_data = project_data
    /\ pc = "idle"
    /\ failed = FALSE
    /\ steps = <<>>
    /\ metadata = EmptyMap
    /\ analysis = EmptyMap
    /\ results = EmptyMap
    /\ prior_chart = Absent
    /\ prior_report = Absent
    /\ chart_file = prior_chart
    /\ report_file = prior_report
    /\ responses = <<>>
    /\ prev_analysis = EmptyMap
    /\ calls = 0

NextCalls == CallFetchProjectData \/ CallAnalyzeProjectData

SpecCalls == InitCalls /\ [][NextCalls]_vars

(***************************************************************************)
(* Properties.                                                             *)
(***************************************************************************)
StepRan(step) == step \in Range(steps)

RaisedIn(step) == failed /\ pc = step

\* the lookup that decides the entry of project p: the last one made for it
LastLookup(p) ==
    CHOOSE i \in 1..Len(project_names) :
        /\ project_names[i] = p
        /\ \A j \in (i + 1)..Len(project_names) : project_names[j] # p

Offsets == <<0, 3, 5, 7, 10, 12, 15, 17, 20>>

\* C1: analyze_project_data leaves the tables it is given unchanged: after a
\* call the coverage table has the columns and rows it had before (no
\* growth_rate column), and the crash table is unchanged.
C1_InputTablesUnchanged == calls > 0 => project_data = input_data

\* C2: two calls of analyze_project_data in a row on the same project_data
\* object return equal results: the same unique_crashes, avg_coverage and
\* coverage_trend (length, order, fields and values) for every project.
C2_SecondCallSameResult == calls >= 2 => analysis = prev_analysis

C2_Witness ==
    /\ calls = 2
    /\ project_names = <<"zlib", "libpng">>
    /\ input_data = fetch_project_data(project_names).value
    /\ Len(analysis["zlib"].coverage_trend) = 9
    /\ analysis["zlib"].coverage_trend[2].growth_rate = Frac(30, 7)
    /\ prev_analysis = analysis

\* C3: in the report built by main, raw_data[p] holds the tables as
\* fetch_project_data produced them: the 9 coverage records {date, coverage}
\* in order with no derived field, and the 9 crash records.
C3_RawDataUntransformed ==
    StepRan("build_report") =>
        \A p \in Range(project_names) :
            /\ results.raw_data[p].coverage = coverage_data(coverage_base[p])
            /\ results.raw_data[p].crashes = crash_data

\* C4: when the list names a project without a baseline, fetch_project_data
\* raises and returns no mapping (no tables for the known projects before it,
\* none from a default baseline), main stops at that step and neither the
\* chart nor the report is written by the run.
C4_UnknownProjectAborts ==
    (\E i \in 1..Len(project_names) : project_names[i] \notin KnownProjects) =>
        /\ fetch_project_data(project_names).raised
        /\ project_data = EmptyMap
        /\ pc \in {"fetch_metadata", "fetch_data"}
        /\ StepRan("fetch_data") => RaisedIn("fetch_data")
        /\ chart_file = prior_chart
        /\ report_file = prior_report

C4_Witness ==
    /\ project_names = <<"zlib", "invalid_project">>
    /\ RaisedIn("fetch_data")
    /\ project_data = EmptyMap

NoTransportFailure ==
    \A i \in 1..Len(responses) : responses[i].transport = "ok"

MetadataAsClaimed ==
    /\ ~RaisedIn("fetch_metadata")
    /\ DOMAIN metadata = Range(project_names)
    /\ \A p \in Range(project_names) :
          metadata[p] = IF responses[LastLookup(p)].status_code = 200
                        THEN [type |-> "dir"]
                        ELSE NotFound

StepsInOrder ==
    /\ Len(steps) <= Len(Order)
    /\ \A i \in 1..Len(steps) : steps[i] = Order[i]
    /\ \/ pc = "done" /\ ~failed /\ steps = Order
       \/ ~failed /\ Len(steps) < Len(Order) /\ pc = Order[Len(steps) + 1]
       \/ failed /\ steps # <<>> /\ pc = steps[Len(steps)]
    /\ report_file # prior_report =>
          /\ StepRan("plot")
          /\ chart_file = [exists |-> TRUE,
                           content |-> plot_coverage_trends(project_data,
                                                            project_names)]

\* C6: a run of main performs fetch metadata, fetch data, analyze, render
\* chart, build report, write report in this order, each at most once and
\* each after the one before has completed; once a step has failed no later
\* step runs; the report is never written before the chart is saved.
C6_FixedStepOrder ==
    /\ []StepsInOrder
    /\ [][failed => (steps' = steps /\ report_file' = report_file
                        /\ chart_file' = chart_file)]_vars

C6_Witness ==
    /\ pc = "done" /\ steps = Order
    /\ report_file # prior_report
    /\ chart_file # prior_chart

\* C7: when writing the report fails, the report file does not hold a
\* partial report of the run: after a failed run it holds what the prior run
\* left (or is absent); after a successful run it holds the complete report.
C7_NoPartialReport ==
    /\ failed => report_file = prior_report
    /\ pc = "done" =>
          report_file = [exists |-> TRUE, content |-> JsonChunks(results)]

\* C8: unique_crashes is the number of distinct crash_hash values of the
\* project's crash table, events sharing a hash counting once; for the tables
\* of fetch_project_data (9 events, abc123 twice) it is 8.
C8_UniqueCrashes ==
    calls > 0 =>
        \A p \in DOMAIN input_data :
            /\ analysis[p].unique_crashes =
                  Cardinality({input_data[p].crashes.rows[i].crash_hash :
                                  i \in 1..Len(input_data[p].crashes.rows)})
            /\ input_data[p].crashes.rows = crash_data =>
                  analysis[p].unique_crashes = 8

C8_Witness ==
    /\ calls > 0
    /\ project_names = <<"openssl">>
    /\ input_data["openssl"].crashes.rows = crash_data
    /\ Len(crash_data) = 9
    /\ analysis["openssl"].unique_crashes = 8

\* C9: coverage_trend has one record per coverage sample in the table's row
\* order; the first growth_rate is NaN, and for every later record whose
\* predecessor has non-zero coverage,
\* growth_rate * coverage[i-1] = (coverage[i] - coverage[i-1]) * 100,
\* the predecessor being the row just before, also when the dates are equal.
C9_GrowthRate ==
    calls > 0 =>
        \A p \in DOMAIN input_data :
            LET rows == input_data[p].coverage.rows
                trend == analysis[p].coverage_trend
            IN  /\ Len(trend) = Len(rows)
                /\ \A i \in 1..Len(rows) :
                      /\ trend[i].coverage = rows[i].coverage
                      /\ trend[i].date.text = rows[i].date.text
                      /\ i = 1 => trend[i].growth_rate = NaN
                      /\ (i > 1 /\ rows[i - 1].coverage # 0) =>
                            /\ trend[i].growth_rate.kind = "num"
                            /\ trend[i].growth_rate.num * rows[i - 1].coverage
                                  = (rows[i].coverage - rows[i - 1].coverage)
                                      * 100 * trend[i].growth_rate.den

C9_Witness ==
    /\ calls > 0
    /\ project_names = <<"test_project">>
    /\ Len(input_data["test_project"].coverage.rows) = 3
    /\ input_data["test_project"].coverage.rows[2].date
          = input_data["test_project"].coverage.rows[3].date
    /\ Column(input_data["test_project"].coverage, "coverage") = <<75, 50, 75>>
    /\ analysis["test_project"].coverage_trend[3].growth_rate = Frac(50, 1)

\* C10: for every known project of the list fetch_project_data returns 9
\* coverage samples whose values are the project's baseline plus
\* 0,3,5,7,10,12,15,17,20 in sample order (zlib: 70,73,75,77,80,82,85,87,90),
\* whatever else is requested and wherever the project stands in the list.
C10_CoverageValues ==
    (pc = "analyze" /\ ~failed) =>
        /\ DOMAIN project_data = Range(project_names)
        /\ \A p \in Range(project_names) :
              /\ project_data[p].coverage.columns = <<"date", "coverage">>
              /\ Len(project_data[p].coverage.rows) = 9
              /\ Column(project_data[p].coverage, "coverage")
                    = [i \in 1..9 |->
                         Offsets[i] + (CASE p = "zlib" -> 70 [] p = "libpng" -> 75
                                         [] p = "openssl" -> 65)]
              /\ p = "zlib" =>
                    Column(project_data[p].coverage, "coverage")
                        = <<70, 73, 75, 77, 80, 82, 85, 87, 90>>

C10_Witness ==
    /\ pc = "analyze" /\ ~failed
    /\ project_names = <<"libpng", "zlib">>
    /\ Column(project_data["zlib"].coverage, "coverage")
          = <<70, 73, 75, 77, 80, 82, 85, 87, 90>>

====
